---------------------------- MODULE Spec2Model ----------------------------
(***************************************************************************)
(* Model of openfpm_devices:                                               *)
(*   - gpu::ofp_context_t (src/util/ofp_context.hpp), the CUDA_GPU and the *)
(*     CUDA_ON_CPU variants, together with the part of the CUDA runtime    *)
(*     its methods call;                                                   *)
(*   - the CPU emulation state of src/util/cudify/cudify_vars.cpp and the  *)
(*     cooperative block scheduler that drives it.                         *)
(***************************************************************************)
EXTENDS Integers, FiniteSets, Sequences, TLC

(***************************************************************************)
(* Bounds of the model.                                                    *)
(***************************************************************************)
MaxDevices == 2
MaxDevNum == 2
MaxPtr == 1
MaxSize == 1
MaxDiag == 3
MaxWorkers == 2
MaxGridX == 2
MaxBlockX == 2
MaxBlockY == 2
MaxPool == 4
MaxThreads == 4
MaxBody == 3

(***************************************************************************)
(* Program constants.                                                      *)
(***************************************************************************)
PtxVersionNoNvcc == 60
MsPerSecond == 1000

VARIABLES
    variant,        \* which ofp_context_t the build compiles: CUDA_GPU or CUDA_ON_CPU
    nvcc,           \* whether __NVCC__ is defined (CUDA_GPU builds)
    ctx,            \* lifecycle of the context object
    ptx_version,    \* ofp_context_t::_ptx_version
    stream,         \* ofp_context_t::_stream
    props,          \* ofp_context_t::_props
    timer,          \* ofp_context_t::_timer[2]
    event,          \* ofp_context_t::_event
    tmem,           \* ofp_context_t::tmem (tmem2, tmem3 behave alike)
    num_dev,        \* CUDA runtime: number of devices of the machine
    cur_dev,        \* CUDA runtime: current device of the calling host thread
    live,           \* CUDA runtime: live allocations, <<pointer, space>>
    evLive,         \* CUDA runtime: event handles created and not destroyed
    evMade,         \* CUDA runtime: number of event handles created so far
    evRecorded,     \* CUDA runtime: event handles recorded on a stream
    destroys,       \* number of cudaEventDestroy calls made on each handle field
    last,           \* the last operation: its arguments, backend calls and outcome
    diag,           \* number of "Not implemented" lines written to std::cout
    phase,          \* the launch: idle, running, or returned to the caller
    kernel,         \* the kernel body the launch runs
    gridDim,        \* dim3 gridDim
    blockDim,       \* dim3 blockDim
    threadIdx,      \* thread_local dim3 threadIdx, one per worker
    blockIdx,       \* thread_local dim3 blockIdx, one per worker
    vct_atomic_add, \* thread_local int vct_atomic_add, one per worker
    n_workers,      \* size_t n_workers
    contexts,       \* the pool slot (mem_stack / contexts index) each simulated thread holds
    running,        \* per worker: the simulated thread whose context runs; -1 when main_ctx runs
    wblock,         \* per worker: the block it executes; -1 when it has none
    ran,            \* per worker: the threads resumed in the current round
    bstate,         \* per block: pending, running or done, and how often it was claimed
    th,             \* per block and thread: state of the simulated thread
    cell,           \* per block: the shared counter the kernel adds to
    out             \* per block: the output array the kernel writes


ctxVars == <<variant, nvcc, ctx, ptx_version, stream, props, timer, event, tmem,
             num_dev, cur_dev, live, evLive, evMade, evRecorded, destroys, last, diag>>

schedVars == <<phase, kernel, gridDim, blockDim, threadIdx, blockIdx, vct_atomic_add,
               n_workers, contexts, running, wblock, ran, bstate, th, cell, out>>

vars == <<ctxVars, schedVars>>

Variants == {"CUDA_GPU", "CUDA_ON_CPU"}
gpu_context_opt == {"no_print_props", "print_props", "dummy"}
memory_space_t == {"memory_space_device", "memory_space_host"}
DevNums == (0 - MaxDevNum) .. MaxDevNum
Streams == {0, 1}
Pointers == 1 .. MaxPtr
Sizes == 0 .. MaxSize
Fields == {"_timer[0]", "_timer[1]", "_event"}
Millis == {0, 1500}
PtxVersions == {PtxVersionNoNvcc + 10}
UBOutcomes == {"rejected", "crash"}

\* The C++ % operator on int: the quotient truncates toward zero, so the
\* remainder takes the sign of the dividend.
CRem(a, b) == IF a >= 0 THEN a % b ELSE 0 - ((0 - a) % b)

\* The record kept of one operation: the method, its arguments, the backend
\* functions it called, the first native error one of them returned, the
\* error code it threw, the value it returned, and the handle fields it gave
\* to the backend (or to the caller) while they held no valid handle.
Op(name, args, calls, err, thrown, ret, bad) ==
    [op |-> name, args |-> args, calls |-> calls, err |-> err,
     thrown |-> thrown, ret |-> ret, bad |-> bad]

NoOp == Op("none", <<>>, {}, "cudaSuccess", "none", <<>>, {})

\* Value of a handle field: 0 is the indeterminate value of a cudaEvent_t no
\* cudaEventCreate has written; the runtime's handles are 1, 2, ...
HandleOf(f) == IF f = "_event" THEN event ELSE IF f = "_timer[0]" THEN timer[0] ELSE timer[1]

\* A handle the CUDA runtime accepts: created and not yet destroyed.
Valid(h) == h \in evLive

\* The fields among fs that hold no valid handle.
Invalid(fs) == {f \in fs : ~Valid(HandleOf(f))}

\* Result of backend call c when the environment makes call f fail.
R(c, f) == IF f = c THEN "cudaErrorUnknown" ELSE "cudaSuccess"

\* First native error of a sequence of results.
RECURSIVE FirstErr(_)
FirstErr(rs) ==
    IF rs = <<>> THEN "cudaSuccess"
    ELSE IF Head(rs) # "cudaSuccess" THEN Head(rs) ELSE FirstErr(Tail(rs))

(***************************************************************************)
(* CUDA_GPU: ofp_context_t::init and the constructor.                      *)
(***************************************************************************)
InitCalls == {"cudaFuncGetAttributes", "cudaGetDeviceCount", "cudaSetDevice",
              "cudaGetDevice", "cudaGetDeviceProperties",
              "cudaEventCreate0", "cudaEventCreate1", "cudaEventCreate2"}

\* dev_num % num_dev as init computes it: the argument of cudaSetDevice.
SetDeviceArg(d, n) == CRem(d, n)

\* cudaSetDevice(ord): rejects an ordinal that names no device.
cudaSetDevice(ord, f) ==
    IF f = "cudaSetDevice" THEN "cudaErrorUnknown"
    ELSE IF ord \in 0 .. (num_dev - 1) THEN "cudaSuccess" ELSE "cudaErrorInvalidDevice"

\* The constructor with options o, device number d and stream s; f is the
\* backend call the environment fails (or "none"), g the value an int left
\* uninitialized happens to hold.
GpuConstructWith(o, d, s, f, g, pv) ==
    LET rAttr  == IF nvcc THEN R("cudaFuncGetAttributes", f) ELSE "cudaSuccess"
        rCount == R("cudaGetDeviceCount", f)
        n      == IF rCount = "cudaSuccess" THEN num_dev ELSE g
        bind   == n # 0 /\ o # "dummy"
        ord    == IF n # 0 THEN SetDeviceArg(d, n) ELSE 0
        rSet   == IF bind THEN cudaSetDevice(ord, f) ELSE "cudaSuccess"
        cur1   == IF bind /\ rSet = "cudaSuccess" THEN ord ELSE cur_dev
        rGet   == IF n # 0 THEN R("cudaGetDevice", f) ELSE "cudaSuccess"
        ordq   == IF rGet = "cudaSuccess" THEN cur1 ELSE g
        rProps == IF n = 0 THEN "cudaSuccess"
                  ELSE IF f = "cudaGetDeviceProperties" THEN "cudaErrorUnknown"
                  ELSE IF ordq \in 0 .. (num_dev - 1) THEN "cudaSuccess"
                  ELSE "cudaErrorInvalidDevice"
        rE0    == IF n # 0 THEN R("cudaEventCreate0", f) ELSE "cudaSuccess"
        rE1    == IF n # 0 THEN R("cudaEventCreate1", f) ELSE "cudaSuccess"
        rE2    == IF n # 0 THEN R("cudaEventCreate2", f) ELSE "cudaSuccess"
        made0  == IF n # 0 /\ rE0 = "cudaSuccess" THEN 1 ELSE 0
        made1  == IF n # 0 /\ rE1 = "cudaSuccess" THEN 1 ELSE 0
        made2  == IF n # 0 /\ rE2 = "cudaSuccess" THEN 1 ELSE 0
        h0     == IF made0 = 1 THEN evMade + 1 ELSE 0
        h1     == IF made1 = 1 THEN evMade + made0 + 1 ELSE 0
        h2     == IF made2 = 1 THEN evMade + made0 + made1 + 1 ELSE 0
        calls  == (IF nvcc THEN {"cudaFuncGetAttributes"} ELSE {})
                  \cup {"cudaGetDeviceCount"}
                  \cup (IF bind THEN {"cudaSetDevice"} ELSE {})
                  \cup (IF n # 0 THEN {"cudaGetDevice", "cudaGetDeviceProperties",
                                        "cudaEventCreate"} ELSE {})
    IN  /\ stream' = s
        /\ IF rAttr # "cudaSuccess"
           THEN \* throw cuda_exception_t(result): no object is constructed
                /\ ctx' = "Failed"
                /\ last' = Op("construct", <<o, d, cur_dev>>, {"cudaFuncGetAttributes"}, rAttr,
                              rAttr, <<>>, {})
                /\ UNCHANGED <<ptx_version, props, timer, event, cur_dev, evLive, evMade>>
           ELSE /\ ctx' = "Initialized"
                /\ ptx_version' = IF nvcc THEN pv ELSE PtxVersionNoNvcc
                /\ cur_dev' = cur1
                /\ props' = IF n # 0 /\ rProps = "cudaSuccess" THEN <<ordq>> ELSE props
                /\ timer' = [i \in {0, 1} |-> IF i = 0 THEN h0 ELSE h1]
                /\ event' = h2
                /\ evLive' = evLive \cup ({h0, h1, h2} \ {0})
                /\ evMade' = evMade + made0 + made1 + made2
                /\ last' = Op("construct", <<o, d, cur_dev>>, calls,
                              FirstErr(<<rCount, rSet, rGet, rProps, rE0, rE1, rE2>>),
                              "none",
                              \* print_props prints device_prop_string(_props)
                              IF o = "print_props"
                              THEN (IF n # 0 /\ rProps = "cudaSuccess" THEN <<ordq>> ELSE props)
                              ELSE <<>>,
                              {})
        /\ UNCHANGED <<schedVars, variant, nvcc, tmem, num_dev, live, evRecorded, destroys, diag>>

GpuConstruct ==
    /\ variant = "CUDA_GPU"
    /\ ctx = "Uninitialized"
    /\ \E o \in gpu_context_opt, d \in DevNums, s \in Streams,
          f \in {"none"} \cup InitCalls, g \in 0 .. MaxDevices, pv \in PtxVersions :
                    /\ (f \in {"none", "cudaFuncGetAttributes", "cudaSetDevice", "cudaGetDeviceProperties",
                     "cudaEventCreate0", "cudaEventCreate1", "cudaEventCreate2"} => g = 0)
          /\ GpuConstructWith(o, d, s, f, g, pv)

\* Giving the runtime a handle it never created (or already destroyed) is
\* undefined: the runtime rejects it, or the process dies.
AfterCall(bad, ub) == IF bad # {} /\ ub = "crash" THEN "Crashed" ELSE "Initialized"

HandleErr(bad, r) == IF bad # {} THEN "cudaErrorInvalidResourceHandle" ELSE r

\* ~ofp_context_t(): three cudaEventDestroy calls, results ignored.
GpuDestroyWith(ub) ==
    /\ ctx' = IF AfterCall(Invalid(Fields), ub) = "Crashed" THEN "Crashed" ELSE "Destroyed"
    /\ destroys' = [f \in Fields |-> destroys[f] + 1]
    /\ evLive' = evLive \ {HandleOf(f) : f \in Fields}
    /\ last' = Op("destroy", <<>>, {"cudaEventDestroy"},
                  HandleErr(Invalid(Fields), "cudaSuccess"), "none", <<>>, Invalid(Fields))
    /\ UNCHANGED <<schedVars, variant, nvcc, ptx_version, stream, props, timer, event, tmem,
                   num_dev, cur_dev, live, evMade, evRecorded, diag>>

GpuDestroy ==
    /\ variant = "CUDA_GPU"
    /\ ctx = "Initialized"
    /\ \E ub \in UBOutcomes :
          /\ (Invalid(Fields) = {} => ub = "rejected")
          /\ GpuDestroyWith(ub)

(***************************************************************************)
(* CUDA_GPU: the methods.                                                  *)
(***************************************************************************)
GpuCall == variant = "CUDA_GPU" /\ ctx = "Initialized"

\* What a method that touches neither the object nor the runtime leaves alone.
GpuFrame == UNCHANGED <<schedVars, variant, nvcc, ctx, ptx_version, stream, props, timer, event, tmem,
                        num_dev, cur_dev, evLive, evMade, destroys, diag>>

\* alloc without the if(size) test: the allocator is called for every size.
GpuAllocNoSizeTest(size, space, p, f) ==
    LET fn   == IF space = "memory_space_device" THEN "cudaMalloc" ELSE "cudaMallocHost"
        free == Pointers \ {a[1] : a \in live}
        res  == IF f = fn \/ free = {} THEN "cudaErrorMemoryAllocation" ELSE "cudaSuccess"
    IN  /\ (res = "cudaSuccess" => p \in free)
        /\ live' = IF res = "cudaSuccess" THEN live \cup {<<p, space>>} ELSE live
        /\ last' = Op("alloc", <<size, space>>, {fn}, res,
                      IF res # "cudaSuccess" THEN res ELSE "none",
                      IF res = "cudaSuccess" THEN <<p>> ELSE <<>>, {})

\* alloc(size, space): cudaMalloc / cudaMallocHost when size is not 0; p is
\* the address the runtime hands out, f the backend call the environment fails.
GpuAllocWith(size, space, p, f) ==
    LET fn   == IF space = "memory_space_device" THEN "cudaMalloc" ELSE "cudaMallocHost"
        free == Pointers \ {a[1] : a \in live}
        res  == IF f = fn \/ free = {} THEN "cudaErrorMemoryAllocation" ELSE "cudaSuccess"
    IN  IF size # 0
        THEN /\ (res = "cudaSuccess" => p \in free)
             /\ live' = IF res = "cudaSuccess" THEN live \cup {<<p, space>>} ELSE live
             /\ last' = Op("alloc", <<size, space>>, {fn}, res,
                           IF res # "cudaSuccess" THEN res ELSE "none",
                           IF res = "cudaSuccess" THEN <<p>> ELSE <<>>, {})
        ELSE /\ live' = live
             /\ last' = Op("alloc", <<size, space>>, {}, "cudaSuccess", "none", <<0>>, {})

GpuAlloc ==
    /\ GpuCall
    /\ \E size \in Sizes, space \in memory_space_t, p \in Pointers,
          f \in {"none", "cudaMalloc", "cudaMallocHost"} :
          GpuAllocWith(size, space, p, f)
    /\ UNCHANGED evRecorded
    /\ GpuFrame

\* free(p, space): cudaFree / cudaFreeHost when p is not null.
GpuFreeWith(p, space, f) ==
    LET fn  == IF space = "memory_space_device" THEN "cudaFree" ELSE "cudaFreeHost"
        res == IF f = fn THEN "cudaErrorUnknown"
               ELSE IF <<p, space>> \in live THEN "cudaSuccess" ELSE "cudaErrorInvalidValue"
    IN  IF p # 0
        THEN /\ live' = IF res = "cudaSuccess" THEN live \ {<<p, space>>} ELSE live
             /\ last' = Op("free", <<p, space>>, {fn}, res,
                           IF res # "cudaSuccess" THEN res ELSE "none", <<>>, {})
        ELSE /\ live' = live
             /\ last' = Op("free", <<p, space>>, {}, "cudaSuccess", "none", <<>>, {})

GpuFree ==
    /\ GpuCall
    /\ \E p \in 0 .. MaxPtr, space \in memory_space_t, f \in {"none", "cudaFree", "cudaFreeHost"} :
          GpuFreeWith(p, space, f)
    /\ UNCHANGED evRecorded
    /\ GpuFrame

\* synchronize(): cudaStreamSynchronize(_stream) or cudaDeviceSynchronize().
GpuSynchronizeWith(f) ==
    LET fn  == IF stream # 0 THEN "cudaStreamSynchronize" ELSE "cudaDeviceSynchronize"
        res == R(fn, f)
    IN  last' = Op("synchronize", <<>>, {fn}, res,
                   IF res # "cudaSuccess" THEN res ELSE "none", <<>>, {})

GpuSynchronize ==
    /\ GpuCall
    /\ \E f \in {"none", "cudaStreamSynchronize", "cudaDeviceSynchronize"} : GpuSynchronizeWith(f)
    /\ UNCHANGED <<live, evRecorded>>
    /\ GpuFrame

\* event(): returns _event.
GpuEvent ==
    /\ GpuCall
    /\ last' = Op("event", <<>>, {}, "cudaSuccess", "none", <<event>>, Invalid({"_event"}))
    /\ UNCHANGED <<live, evRecorded>>
    /\ GpuFrame

\* timer_begin(): cudaEventRecord(_timer[0], _stream), result ignored.
GpuTimerBeginWith(f, ub) ==
    LET bad == Invalid({"_timer[0]"})
        res == HandleErr(bad, R("cudaEventRecord", f))
    IN  /\ evRecorded' = IF res = "cudaSuccess" THEN evRecorded \cup {timer[0]} ELSE evRecorded
        /\ last' = Op("timer_begin", <<>>, {"cudaEventRecord"}, res, "none", <<>>, bad)
        /\ ctx' = AfterCall(bad, ub)

\* The frame of a method that hands handle fields to the runtime.
GpuHandleFrame == UNCHANGED <<schedVars, variant, nvcc, ptx_version, stream, props, timer, event, tmem,
                              num_dev, cur_dev, live, evLive, evMade, destroys, diag>>

GpuTimerBegin ==
    /\ GpuCall
    /\ \E f \in {"none", "cudaEventRecord"}, ub \in UBOutcomes :
          /\ (Invalid({"_timer[0]"}) = {} => ub = "rejected")
          /\ GpuTimerBeginWith(f, ub)
    /\ GpuHandleFrame

\* timer_end(): records and waits for _timer[1], then returns
\* cudaEventElapsedTime(_timer[0], _timer[1]) / 1.0e3; every result is ignored
\* and float ms is left unwritten when cudaEventElapsedTime fails.  ms is the
\* interval the runtime measures, g what the unwritten float holds.
GpuTimerEndWith(f, ub, ms, g) ==
    LET bad  == Invalid({"_timer[0]", "_timer[1]"})
        rRec == HandleErr(Invalid({"_timer[1]"}), R("cudaEventRecord", f))
        rec1 == IF rRec = "cudaSuccess" THEN evRecorded \cup {timer[1]} ELSE evRecorded
        rSyn == HandleErr(Invalid({"_timer[1]"}), R("cudaEventSynchronize", f))
        rEla == IF bad # {} \/ ~({timer[0], timer[1]} \subseteq rec1)
                THEN "cudaErrorInvalidResourceHandle"
                ELSE R("cudaEventElapsedTime", f)
    IN  /\ evRecorded' = rec1
        /\ last' = Op("timer_end", <<>>,
                      {"cudaEventRecord", "cudaEventSynchronize", "cudaEventElapsedTime"},
                      FirstErr(<<rRec, rSyn, rEla>>), "none",
                      <<IF rEla = "cudaSuccess" THEN ms ELSE g, MsPerSecond>>, bad)
        /\ ctx' = AfterCall(bad, ub)

GpuTimerEnd ==
    /\ GpuCall
    /\ \E f \in {"none", "cudaEventRecord", "cudaEventSynchronize", "cudaEventElapsedTime"},
          ub \in UBOutcomes, ms \in Millis, g \in Millis :
          /\ (Invalid({"_timer[0]", "_timer[1]"}) = {} => ub = "rejected")
          /\ GpuTimerEndWith(f, ub, ms, g)
    /\ GpuHandleFrame

\* getDevice(): int dev = 0; cudaGetDevice(&dev), result ignored.
GpuGetDeviceWith(f) ==
    LET res == R("cudaGetDevice", f)
    IN  last' = Op("getDevice", <<>>, {"cudaGetDevice"}, res, "none",
                   <<IF res = "cudaSuccess" THEN cur_dev ELSE 0>>, {})

GpuGetDevice ==
    /\ GpuCall
    /\ \E f \in {"none", "cudaGetDevice"} : GpuGetDeviceWith(f)
    /\ UNCHANGED <<live, evRecorded>>
    /\ GpuFrame

\* getNDevice(): int num_dev; cudaGetDeviceCount(&num_dev), result ignored.
GpuGetNDeviceWith(f, g) ==
    LET res == R("cudaGetDeviceCount", f)
    IN  last' = Op("getNDevice", <<>>, {"cudaGetDeviceCount"}, res, "none",
                   <<IF res = "cudaSuccess" THEN num_dev ELSE g>>, {})

GpuGetNDevice ==
    /\ GpuCall
    /\ \E f \in {"none", "cudaGetDeviceCount"}, g \in 0 .. MaxDevices : GpuGetNDeviceWith(f, g)
    /\ UNCHANGED <<live, evRecorded>>
    /\ GpuFrame

\* props(), ptx_version(), stream(): return the fields.
GpuQuery ==
    /\ GpuCall
    /\ \/ last' = Op("props", <<>>, {}, "cudaSuccess", "none", props, {})
       \/ last' = Op("ptx_version", <<>>, {}, "cudaSuccess", "none", <<ptx_version>>, {})
       \/ last' = Op("stream", <<>>, {}, "cudaSuccess", "none", <<stream>>, {})
    /\ UNCHANGED <<live, evRecorded>>
    /\ GpuFrame

(***************************************************************************)
(* CUDA_ON_CPU: every method prints "Not implemented" (props and           *)
(* ptx_version print nothing) and returns a default.                       *)
(***************************************************************************)
StubCall == variant = "CUDA_ON_CPU" /\ ctx = "Initialized"

StubFrame == UNCHANGED <<schedVars, variant, nvcc, ctx, ptx_version, stream, props, timer, event, tmem,
                         num_dev, cur_dev, live, evLive, evMade, evRecorded, destroys>>

\* One stub method: n lines printed, value v returned.
StubReturn(name, args, n, v) ==
    /\ diag + n <= MaxDiag
    /\ last' = Op(name, args, {}, "cudaSuccess", "none", v, {})
    /\ diag' = diag + n

\* ofp_context_t(opt, dev_num, stream_) {} and init(dev_num, opt) {}
StubConstruct ==
    /\ variant = "CUDA_ON_CPU"
    /\ ctx = "Uninitialized"
    /\ \E o \in gpu_context_opt, d \in DevNums :
          last' = Op("construct", <<o, d, cur_dev>>, {}, "cudaSuccess", "none", <<>>, {})
    /\ ctx' = "Initialized"
    /\ UNCHANGED <<schedVars, variant, nvcc, ptx_version, stream, props, timer, event, tmem, num_dev,
                   cur_dev, live, evLive, evMade, evRecorded, destroys, diag>>

\* ~ofp_context_t() {}
StubDestroy ==
    /\ variant = "CUDA_ON_CPU"
    /\ ctx = "Initialized"
    /\ ctx' = "Destroyed"
    /\ last' = Op("destroy", <<>>, {}, "cudaSuccess", "none", <<>>, {})
    /\ UNCHANGED <<schedVars, variant, nvcc, ptx_version, stream, props, timer, event, tmem, num_dev,
                   cur_dev, live, evLive, evMade, evRecorded, destroys, diag>>

StubProps == StubReturn("props", <<>>, 0, props)

StubPtxVersion == StubReturn("ptx_version", <<>>, 0, <<0>>)

StubStream == StubReturn("stream", <<>>, 1, <<0>>)

StubAllocWith(size, space) == StubReturn("alloc", <<size, space>>, 1, <<0>>)

StubFreeWith(p, space) == StubReturn("free", <<p, space>>, 1, <<>>)

StubSynchronize == StubReturn("synchronize", <<>>, 1, <<>>)

StubEvent == StubReturn("event", <<>>, 1, <<0>>)

StubTimerBegin == StubReturn("timer_begin", <<>>, 1, <<>>)

\* timer_end that reports the missing timer_begin instead of returning 0.0.
StubTimerEndThrows ==
    /\ diag + 1 <= MaxDiag
    /\ last' = Op("timer_end", <<>>, {}, "cudaSuccess", "std::runtime_error", <<>>, {})
    /\ diag' = diag + 1

StubTimerEnd == StubReturn("timer_end", <<>>, 1, <<0>>)

StubGetDevice == StubReturn("getDevice", <<>>, 1, <<0>>)

StubAlloc == \E size \in Sizes, space \in memory_space_t : StubAllocWith(size, space)

StubFree == \E p \in 0 .. MaxPtr, space \in memory_space_t : StubFreeWith(p, space)

StubMethod ==
    /\ StubCall
    /\ \/ StubProps
       \/ StubPtxVersion
       \/ StubStream
       \/ StubAlloc
       \/ StubFree
       \/ StubSynchronize
       \/ StubEvent
       \/ StubTimerBegin
       \/ StubTimerEnd
       \/ StubGetDevice
    /\ StubFrame

(***************************************************************************)
(* CPU emulation: the state of cudify_vars.cpp and the cooperative         *)
(* scheduler of one kernel launch.  Blocks and the threads of a block are  *)
(* numbered in loop order (x fastest); Coord gives the dim3 of a number.   *)
(***************************************************************************)
Dim3(a, b, c) == [x |-> a, y |-> b, z |-> c]

Volume(d) == d.x * d.y * d.z

Coord(i, d) == Dim3(i % d.x, (i \div d.x) % d.y, i \div (d.x * d.y))

Linear(c, d) == c.x + d.x * (c.y + d.y * c.z)

Workers == 1 .. n_workers
Blocks == 0 .. (Volume(gridDim) - 1)
Threads == 0 .. (Volume(blockDim) - 1)

\* threadIdx and blockIdx declared without thread_local: one copy for all workers.
TlsShared(w) == 1

\* The copy of the thread_local threadIdx and blockIdx worker w reads and writes.
Tls(w) == w

\* vct_atomic_add declared without thread_local.
ScratchShared(w) == 1

\* The copy of the thread_local vct_atomic_add worker w reads and writes.
Scratch(w) == w

\* The kernel body, as the thread that reads coordinate c executes it:
\*     for (i < adds) atomicAdd(&cell, 1);
\*     if (early && threadIdx.x > 0) return;
\*     for (k < bars) { __syncthreads(); out[threadIdx] = threadIdx.x; }
Barriers(c) == IF kernel.early /\ c.x > 0 THEN 0 ELSE kernel.bars

Kernels == {k \in [adds : 1 .. MaxBody, bars : 0 .. MaxBody, early : BOOLEAN] :
                /\ k.adds + k.bars <= MaxBody
                /\ k.early => k.bars > 0}

NewThread == [status |-> "unstarted", nadd |-> 0, inflight |-> FALSE, gen |-> 0,
              post |-> 0, fins |-> 0]

\* The state with no launch made: what the definitions of cudify_vars.cpp
\* initialize (n_workers is set once, before any launch).
SchedIdle ==
    /\ phase = "idle"
    /\ kernel = [adds |-> 1, bars |-> 0, early |-> FALSE]
    /\ gridDim = Dim3(1, 1, 1)
    /\ blockDim = Dim3(1, 1, 1)
    /\ n_workers = 1
    /\ threadIdx = [w \in 1 .. MaxWorkers |-> Dim3(0, 0, 0)]
    /\ blockIdx = [w \in 1 .. MaxWorkers |-> Dim3(0, 0, 0)]
    /\ vct_atomic_add = [w \in 1 .. MaxWorkers |-> 0]
    /\ contexts = <<>>
    /\ running = <<>>
    /\ wblock = <<>>
    /\ ran = <<>>
    /\ bstate = <<>>
    /\ th = <<>>
    /\ cell = <<>>
    /\ out = <<>>

\* A kernel launch over grid g and blocks of shape b: the pool is grown to
\* one slot per thread of a block and per worker.  MaxThreads caps the
\* simulated threads of the whole launch.
Launch ==
    /\ phase = "idle"
    /\ \E g \in {Dim3(a, 1, 1) : a \in 1 .. MaxGridX},
          b \in {Dim3(a, c, 1) : a \in 1 .. MaxBlockX, c \in 1 .. MaxBlockY},
          k \in Kernels :
          /\ Volume(b) * n_workers <= MaxPool
          /\ Volume(g) * Volume(b) <= MaxThreads
          /\ gridDim' = g
          /\ blockDim' = b
          /\ kernel' = k
          /\ bstate' = [i \in 0 .. (Volume(g) - 1) |-> [state |-> "pending", claims |-> 0]]
          /\ th' = [i \in 0 .. (Volume(g) - 1) |-> [t \in 0 .. (Volume(b) - 1) |-> NewThread]]
          /\ contexts' = [i \in 0 .. (Volume(g) - 1) |-> [t \in 0 .. (Volume(b) - 1) |-> 0]]
          /\ cell' = [i \in 0 .. (Volume(g) - 1) |-> 0]
          /\ out' = [i \in 0 .. (Volume(g) - 1) |-> [t \in 0 .. (Volume(b) - 1) |-> 0 - 1]]
    /\ phase' = "running"
    /\ running' = [w \in Workers |-> 0 - 1]
    /\ wblock' = [w \in Workers |-> 0 - 1]
    /\ ran' = [w \in Workers |-> {}]
    /\ UNCHANGED <<ctxVars, threadIdx, blockIdx, vct_atomic_add, n_workers>>

\* Worker w takes a block no worker has taken and sets blockIdx.
ClaimBlock(w, b) ==
    /\ phase = "running"
    /\ wblock[w] = 0 - 1
    /\ bstate[b].state = "pending"
    /\ wblock' = [wblock EXCEPT ![w] = b]
    /\ bstate' = [bstate EXCEPT ![b] = [state |-> "running", claims |-> @.claims + 1]]
    /\ blockIdx' = [blockIdx EXCEPT ![Tls(w)] = Coord(b, gridDim)]
    /\ UNCHANGED <<ctxVars, phase, kernel, gridDim, blockDim, threadIdx, vct_atomic_add,
                   n_workers, contexts, running, ran, th, cell, out>>

\* The pool slots of worker w, and those of them no simulated thread holds.
SlotsOf(w) == ((w - 1) * Volume(blockDim) + 1) .. (w * Volume(blockDim))

Held == {contexts[b][t] : b \in Blocks, t \in Threads} \ {0}

\* The slot index computed without the worker's offset: every worker takes
\* its slots from the first block-sized part of the pool.
FreeSlotsNoOffset(w) ==
    (1 .. Volume(blockDim)) \ {contexts[wblock[w]][t] : t \in Threads}

FreeSlots(w) == SlotsOf(w) \ Held

Min(S) == CHOOSE m \in S : \A n \in S : m <= n

\* The threads of block b the scheduler has yet to run to completion, and
\* those it may resume next: each unfinished thread once per round.
Unfinished(b) == {t \in Threads : th[b][t].status # "finished"}

\* A scheduler that resumes a suspended thread without waiting for the round.
ResumableAtOnce(w, b) == Unfinished(b)

Resumable(w, b) ==
    IF Unfinished(b) \subseteq ran[w] THEN Unfinished(b) ELSE Unfinished(b) \ ran[w]

\* The coordinates the scheduler binds before it jumps to thread t's context.
BindThread(w, b, t) == [threadIdx EXCEPT ![Tls(w)] = Coord(t, blockDim)]

\* The scheduler (main_ctx) of worker w starts or resumes thread t of its
\* block: a thread never started takes a pool slot first.
Resume(w, t) ==
    /\ phase = "running"
    /\ wblock[w] # 0 - 1
    /\ running[w] = 0 - 1
    /\ LET b == wblock[w]
       IN  /\ t \in Resumable(w, b)
           /\ ran' = [ran EXCEPT ![w] = IF Unfinished(b) \subseteq ran[w] THEN {t}
                                        ELSE ran[w] \cup {t}]
           /\ contexts' = IF th[b][t].status = "unstarted"
                          THEN [contexts EXCEPT ![b][t] = Min(FreeSlots(w))]
                          ELSE contexts
           /\ th' = [th EXCEPT ![b][t].status = "running"]
           /\ threadIdx' = BindThread(w, b, t)
    /\ running' = [running EXCEPT ![w] = t]
    /\ UNCHANGED <<ctxVars, phase, kernel, gridDim, blockDim, blockIdx, vct_atomic_add,
                   n_workers, wblock, bstate, cell, out>>

\* What the running thread of worker w does next.
NextInstr(w) ==
    LET me == th[wblock[w]][running[w]]
        c  == threadIdx[Tls(w)]
    IN  IF me.nadd < kernel.adds THEN (IF me.inflight THEN "store" ELSE "load")
        ELSE IF me.post < me.gen THEN "write"
        ELSE IF me.gen < Barriers(c) THEN "sync"
        ELSE "return"

\* The value the emulated atomic add leaves in the scratch variable.
AtomicSum(old, val) == old + val

\* First half of the emulated atomic add of 1: the sum goes to vct_atomic_add.
AtomicLoad(w) ==
    /\ phase = "running"
    /\ running[w] # 0 - 1
    /\ NextInstr(w) = "load"
    /\ vct_atomic_add' = [vct_atomic_add EXCEPT ![Scratch(w)] = AtomicSum(cell[wblock[w]], 1)]
    /\ th' = [th EXCEPT ![wblock[w]][running[w]].inflight = TRUE]
    /\ UNCHANGED <<ctxVars, phase, kernel, gridDim, blockDim, threadIdx, blockIdx, n_workers,
                   contexts, running, wblock, ran, bstate, cell, out>>

\* Second half: vct_atomic_add is written back to the cell.
AtomicStore(w) ==
    /\ phase = "running"
    /\ running[w] # 0 - 1
    /\ NextInstr(w) = "store"
    /\ cell' = [cell EXCEPT ![wblock[w]] = vct_atomic_add[Scratch(w)]]
    /\ th' = [th EXCEPT ![wblock[w]][running[w]] =
                  [@ EXCEPT !.inflight = FALSE, !.nadd = @ + 1]]
    /\ UNCHANGED <<ctxVars, phase, kernel, gridDim, blockDim, threadIdx, blockIdx,
                   vct_atomic_add, n_workers, contexts, running, wblock, ran, bstate, out>>

\* out[threadIdx] = threadIdx.x, the instruction after a barrier.
Write(w) ==
    /\ phase = "running"
    /\ running[w] # 0 - 1
    /\ NextInstr(w) = "write"
    /\ LET c == threadIdx[Tls(w)]
       IN  out' = [out EXCEPT ![wblock[w]][Linear(c, blockDim)] = c.x]
    /\ th' = [th EXCEPT ![wblock[w]][running[w]].post = @ + 1]
    /\ UNCHANGED <<ctxVars, phase, kernel, gridDim, blockDim, threadIdx, blockIdx,
                   vct_atomic_add, n_workers, contexts, running, wblock, ran, bstate, cell>>

\* __syncthreads(): the context suspends and main_ctx runs again.
Sync(w) ==
    /\ phase = "running"
    /\ running[w] # 0 - 1
    /\ NextInstr(w) = "sync"
    /\ th' = [th EXCEPT ![wblock[w]][running[w]] =
                  [@ EXCEPT !.status = "suspended", !.gen = @ + 1]]
    /\ running' = [running EXCEPT ![w] = 0 - 1]
    /\ UNCHANGED <<ctxVars, phase, kernel, gridDim, blockDim, threadIdx, blockIdx,
                   vct_atomic_add, n_workers, contexts, wblock, ran, bstate, cell, out>>

\* The kernel body returns: the thread is finished, its slot goes back to
\* the pool and main_ctx runs again.
Return(w) ==
    /\ phase = "running"
    /\ running[w] # 0 - 1
    /\ NextInstr(w) = "return"
    /\ th' = [th EXCEPT ![wblock[w]][running[w]] =
                  [@ EXCEPT !.status = "finished", !.fins = @ + 1]]
    /\ contexts' = [contexts EXCEPT ![wblock[w]][running[w]] = 0]
    /\ running' = [running EXCEPT ![w] = 0 - 1]
    /\ UNCHANGED <<ctxVars, phase, kernel, gridDim, blockDim, threadIdx, blockIdx,
                   vct_atomic_add, n_workers, wblock, ran, bstate, cell, out>>

\* A block taken for complete as soon as one of its threads has completed.
BlockCompleteEarly(b) == \E t \in Threads : th[b][t].status = "finished"

\* A block is complete when all its threads have completed.
BlockComplete(b) == Unfinished(b) = {}

BlockDone(w) ==
    /\ phase = "running"
    /\ wblock[w] # 0 - 1
    /\ running[w] = 0 - 1
    /\ BlockComplete(wblock[w])
    /\ bstate' = [bstate EXCEPT ![wblock[w]].state = "done"]
    /\ wblock' = [wblock EXCEPT ![w] = 0 - 1]
    /\ ran' = [ran EXCEPT ![w] = {}]
    /\ UNCHANGED <<ctxVars, phase, kernel, gridDim, blockDim, threadIdx, blockIdx,
                   vct_atomic_add, n_workers, contexts, running, th, cell, out>>

\* After all blocks complete the launch returns control to the caller.
LaunchReturn ==
    /\ phase = "running"
    /\ \A b \in Blocks : bstate[b].state = "done"
    /\ phase' = "returned"
    /\ UNCHANGED <<ctxVars, kernel, gridDim, blockDim, threadIdx, blockIdx, vct_atomic_add,
                   n_workers, contexts, running, wblock, ran, bstate, th, cell, out>>

\* No context object is involved in a launch on the CPU backends.
CtxIdle ==
    /\ variant = "CUDA_ON_CPU"
    /\ nvcc = FALSE
    /\ ctx = "Uninitialized"
    /\ ptx_version = 0
    /\ stream = 0
    /\ props = <<>>
    /\ timer = [i \in {0, 1} |-> 0]
    /\ event = 0
    /\ tmem = <<>>
    /\ num_dev = 0
    /\ cur_dev = 0
    /\ live = {}
    /\ evLive = {}
    /\ evMade = 0
    /\ evRecorded = {}
    /\ destroys = [f \in Fields |-> 0]
    /\ last = NoOp
    /\ diag = 0

SchedInit ==
    /\ CtxIdle
    /\ phase = "idle"
    /\ kernel = [adds |-> 1, bars |-> 0, early |-> FALSE]
    /\ gridDim = Dim3(1, 1, 1)
    /\ blockDim = Dim3(1, 1, 1)
    /\ n_workers \in 1 .. MaxWorkers
    /\ threadIdx = [w \in 1 .. MaxWorkers |-> Dim3(0, 0, 0)]
    /\ blockIdx = [w \in 1 .. MaxWorkers |-> Dim3(0, 0, 0)]
    /\ vct_atomic_add = [w \in 1 .. MaxWorkers |-> 0]
    /\ contexts = <<>>
    /\ running = <<>>
    /\ wblock = <<>>
    /\ ran = <<>>
    /\ bstate = <<>>
    /\ th = <<>>
    /\ cell = <<>>
    /\ out = <<>>

SchedNext ==
    \/ Launch
    \/ \E w \in Workers, b \in Blocks : ClaimBlock(w, b)
    \/ \E w \in Workers, t \in Threads : Resume(w, t)
    \/ \E w \in Workers : AtomicLoad(w)
    \/ \E w \in Workers : AtomicStore(w)
    \/ \E w \in Workers : Write(w)
    \/ \E w \in Workers : Sync(w)
    \/ \E w \in Workers : Return(w)
    \/ \E w \in Workers : BlockDone(w)
    \/ LaunchReturn

SpecSched == SchedInit /\ [][SchedNext]_vars

\* Every worker is an OS thread that keeps running, and the scheduler's loop
\* on it always takes its next step.
FairSched == SpecSched /\ WF_vars(SchedNext)

(***************************************************************************)
(* The device context: one object, constructed, used and destroyed.        *)
(***************************************************************************)
CtxInit ==
    /\ variant \in Variants
    /\ nvcc \in BOOLEAN
    /\ (variant = "CUDA_ON_CPU" => ~nvcc)
    /\ ctx = "Uninitialized"
    /\ ptx_version = 0
    /\ stream = 0
    /\ props = IF variant = "CUDA_ON_CPU" THEN <<>> ELSE <<0 - 1>>
    /\ timer = [i \in {0, 1} |-> 0]
    /\ event = 0
    /\ tmem = <<>>
    /\ num_dev \in 0 .. MaxDevices
    /\ cur_dev \in 0 .. (IF num_dev = 0 THEN 0 ELSE num_dev - 1)
    /\ (variant = "CUDA_ON_CPU" => num_dev = 0)
    /\ live = {}
    /\ evLive = {}
    /\ evMade = 0
    /\ evRecorded = {}
    /\ destroys = [f \in Fields |-> 0]
    /\ last = NoOp
    /\ diag = 0
    /\ SchedIdle

CtxNext ==
    \/ GpuConstruct
    \/ GpuDestroy
    \/ GpuAlloc
    \/ GpuFree
    \/ GpuSynchronize
    \/ GpuEvent
    \/ GpuTimerBegin
    \/ GpuTimerEnd
    \/ GpuGetDevice
    \/ GpuGetNDevice
    \/ GpuQuery
    \/ StubConstruct
    \/ StubDestroy
    \/ StubMethod

SpecCtx == CtxInit /\ [][CtxNext]_vars

(***************************************************************************)
(* Properties of the device context.                                       *)
(***************************************************************************)

\* A degenerate memory request: alloc of size 0, or free of the null pointer.
Degenerate(o) == o.op \in {"alloc", "free"} /\ o.args[1] = 0

\* C4: on both variants alloc(0, space) returns the null pointer and
\* free(null, space) returns; neither fails, neither calls the backend
\* allocator or deallocator, and the set of live allocations is unchanged.
C4_DegenerateRequestsHarmless ==
    [][Degenerate(last') =>
          /\ last'.thrown = "none"
          /\ last'.calls = {}
          /\ live' = live
          /\ (last'.op = "alloc" => last'.ret = <<0>>)]_vars

\* alloc(0, space) has returned on the real-accelerator variant while an
\* allocation is live.
C4_Witness ==
    /\ variant = "CUDA_GPU"
    /\ last.op = "alloc"
    /\ last.args[1] = 0
    /\ live # {}

\* C5 (as claimed): whenever a backend call of an operation of the
\* real-accelerator variant returns a native error, the operation throws
\* that error.
C5_FailuresSurface ==
    (variant = "CUDA_GPU" /\ last.err # "cudaSuccess") => last.thrown = last.err

\* What each stub method returns: null, 0, 0.0, the empty string, or nothing.
StubDefault(name) ==
    IF name \in {"alloc", "stream", "event", "timer_end", "getDevice", "ptx_version"}
    THEN <<0>> ELSE <<>>

StubMethods == {"stream", "alloc", "free", "synchronize", "event", "timer_begin",
                "timer_end", "getDevice", "ptx_version", "props"}

\* C6: every method of the CPU stub, after any sequence of methods, returns
\* its default value, throws nothing and changes nothing of the context but
\* the diagnostic output.
C6_StubNeverFails ==
    [][(variant = "CUDA_ON_CPU" /\ last'.op \in StubMethods) =>
          /\ last'.thrown = "none"
          /\ last'.ret = StubDefault(last'.op)
          /\ last'.calls = {}
          /\ diag' >= diag
          /\ UNCHANGED <<ctx, ptx_version, stream, props, timer, event, tmem, live>>]_vars

\* timer_end has returned on the stub, and no timer_begin came before it
\* (timer_begin prints a line; the only line printed is timer_end's).
C6_Witness ==
    /\ variant = "CUDA_ON_CPU"
    /\ last.op = "timer_end"
    /\ diag = 1

\* C7 (as claimed), looked at only where the environment makes no backend
\* call fail (the only native error left is the one cudaSetDevice answers
\* to the ordinal init gives it): after construction of the
\* real-accelerator context with option o and device number d, the current
\* device is d mod num_dev when there are devices and o is not dummy, it
\* is the device that was current before when o is dummy, and with no
\* device construction has succeeded and bound nothing.
C7_ConstructionBindsDevice ==
    (/\ variant = "CUDA_GPU"
     /\ last.op = "construct"
     /\ last.err \in {"cudaSuccess", "cudaErrorInvalidDevice"}) =>
        LET o      == last.args[1]
            d      == last.args[2]
            before == last.args[3]
        IN  /\ (num_dev > 0 /\ o # "dummy" => ctx = "Initialized" /\ cur_dev = d % num_dev)
            /\ (o = "dummy" => cur_dev = before)
            /\ (num_dev = 0 => /\ ctx = "Initialized"
                                /\ last.thrown = "none"
                                /\ cur_dev = before
                                /\ "cudaSetDevice" \notin last.calls)

\* C8 (as claimed): the destructor releases handles that construction
\* created, each exactly once, and timer_begin, timer_end and event() use
\* only handles that are created and not released.
C8_HandleLifecycle ==
    variant = "CUDA_GPU" =>
        /\ (last.op \in {"destroy", "timer_begin", "timer_end", "event"} => last.bad = {})
        /\ (last.op = "destroy" => \A f \in Fields : destroys[f] = 1)

(***************************************************************************)
(* Properties of the cooperative scheduler.                                *)
(***************************************************************************)
Launched == phase # "idle"

\* C1: in every block, a thread has executed an instruction after its k-th
\* barrier call only if every thread of the block has issued its k-th
\* barrier call or has finished; for every resume order and every number
\* of barriers.
C1_BarrierInvariant ==
    Launched =>
        \A b \in Blocks : \A t \in Threads : \A u \in Threads :
            \/ th[b][t].post <= th[b][u].gen
            \/ th[b][u].status = "finished"

\* A thread has executed the instruction after its second barrier while
\* another thread of its block, suspended at the second barrier, has not.
C1_Witness ==
    /\ Launched
    /\ \E b \in Blocks : \E t \in Threads : \E u \in Threads :
          /\ th[b][t].post = 2
          /\ th[b][u].post = 1
          /\ th[b][u].status = "suspended"

\* C2: whenever the context of a simulated thread runs, on its first start
\* and after every resume, the threadIdx and blockIdx it reads are the
\* coordinates of that thread and of its block.
C2_CoordinateVisibility ==
    Launched =>
        \A w \in Workers :
            running[w] # 0 - 1 =>
                /\ threadIdx[Tls(w)] = Coord(running[w], blockDim)
                /\ blockIdx[Tls(w)] = Coord(wblock[w], gridDim)

\* A thread runs again after a barrier, in a block of several threads, while
\* a second worker runs a thread of another block.
C2_Witness ==
    /\ Launched
    /\ n_workers = 2
    /\ \A w \in Workers : running[w] # 0 - 1
    /\ th[wblock[1]][running[1]].gen >= 1
    /\ Volume(blockDim) >= 2
    /\ running[1] # running[2]

\* C3: when a block completes, the cell its T threads each added 1 to N
\* times, starting from 0, holds N * T.
C3_NoLostUpdate ==
    Launched =>
        \A b \in Blocks :
            bstate[b].state = "done" => cell[b] = kernel.adds * Volume(blockDim)

\* A block of 4 threads, one add each and one barrier, is complete with the
\* counter at 4.
C3_Witness ==
    /\ Launched
    /\ Volume(blockDim) = 4
    /\ kernel.adds = 1
    /\ kernel.bars = 1
    /\ \E b \in Blocks : bstate[b].state = "done" /\ cell[b] = 4

\* C9: a simulated thread holds a pool slot exactly while it is running or
\* suspended at a barrier, the slot is one of its worker's, no two threads
\* hold the same slot, and a finished block holds none.
C9_PoolOwnership ==
    Launched =>
        /\ \A b \in Blocks : \A t \in Threads :
              /\ (contexts[b][t] # 0) <=> (th[b][t].status \in {"running", "suspended"})
              /\ contexts[b][t] # 0 =>
                    \E w \in Workers : wblock[w] = b /\ contexts[b][t] \in SlotsOf(w)
              /\ bstate[b].state = "done" => contexts[b][t] = 0
        /\ \A b1 \in Blocks : \A b2 \in Blocks : \A t1 \in Threads : \A t2 \in Threads :
              (contexts[b1][t1] # 0 /\ contexts[b1][t1] = contexts[b2][t2]) =>
                  (b1 = b2 /\ t1 = t2)

\* Two workers run blocks at once, each with a thread suspended at a barrier
\* and a thread running.
C9_Witness ==
    /\ Launched
    /\ n_workers = 2
    /\ \A w \in Workers :
          /\ running[w] # 0 - 1
          /\ \E t \in Threads : th[wblock[w]][t].status = "suspended"

\* All threads of a block issue the same number of barrier calls.
UniformBarriers ==
    \A t \in Threads : \A u \in Threads :
        Barriers(Coord(t, blockDim)) = Barriers(Coord(u, blockDim))

\* Every block was executed by one worker, and every thread ran to
\* completion once.
ExecutedOnce ==
    \A b \in Blocks :
        /\ bstate[b].state = "done"
        /\ bstate[b].claims = 1
        /\ \A t \in Threads : th[b][t].status = "finished" /\ th[b][t].fins = 1

=============================================================================
